---- MODULE Spec2Model ----
(***************************************************************************)
(* The Flask-application generator of src/src/main.rs: an HTTP surface     *)
(* (GET /, POST /, GET /progress) around one shared Progress record, and   *)
(* the background task run_main_loop that walks the fixed list of          *)
(* components, asks the generation backend for each file, sanitizes the    *)
(* reply, writes it under flask_app/ and logs the steps.                   *)
(*                                                                         *)
(* Texts are sequences of symbols: a backtick, a blank, a line feed, or    *)
(* any other string, which stands for an ordinary non-blank symbol.        *)
(***************************************************************************)
EXTENDS Integers, Sequences, FiniteSets, TLC

\* ------------------------------------------------------------------ bounds
\* Number of submissions (POST /) a behaviour may contain.
MaxRuns == 2
\* Number of failing environment outcomes (backend error, I/O error).
MaxFaults == 2
\* Number of GET / requests.
MaxResets == 1
\* Number of times the scheduler leaves a run that has not ended for another.
MaxSwitches == 1
\* Number of lines of a reply handed to the sanitizer on its own.
MaxLines == 5

Runs == 1..MaxRuns

\* ------------------------------------------------------- program constants
dir_name == "flask_app"

\* The file names of `components`, in order.
components ==
  << "app.py", "config.py", "models.py", "routes.py", "forms.py",
     "templates/index.html", "templates/layout.html", "static/style.css",
     "requirements.txt" >>

NumComponents == Len(components)

history_file_path == "flask_app/generation_history.json"

\* app_dir.join(file_name).parent()
ParentOf(file_name) ==
  CASE file_name \in {"templates/index.html", "templates/layout.html"}
         -> "flask_app/templates"
    [] file_name = "static/style.css" -> "flask_app/static"
    [] OTHER -> dir_name

\* ------------------------------------------------------------------- texts
Tick == "tick"        \* one backtick
Space == " "
Newline == "\n"

\* char::is_whitespace, over the symbols of the model
IsSpace(c) == c \in {Space, Newline}

RECURSIVE TrimStart(_)
TrimStart(s) ==
  IF s # <<>> /\ IsSpace(Head(s)) THEN TrimStart(Tail(s)) ELSE s

RECURSIVE TrimEnd(_)
TrimEnd(s) ==
  IF s # <<>> /\ IsSpace(s[Len(s)]) THEN TrimEnd(SubSeq(s, 1, Len(s) - 1)) ELSE s

\* str::trim
Trim(s) == TrimEnd(TrimStart(s))

\* str::starts_with of the three-backtick marker
StartsWithFence(s) ==
  Len(s) >= 3 /\ s[1] = Tick /\ s[2] = Tick /\ s[3] = Tick

\* str::lines: the pieces between line feeds; a final line feed ends the last
\* line and starts no further one.
RECURSIVE SplitLines(_, _)
SplitLines(s, line) ==
  IF s = <<>> THEN (IF line = <<>> THEN <<>> ELSE <<line>>)
  ELSE IF Head(s) = Newline THEN <<line>> \o SplitLines(Tail(s), <<>>)
  ELSE SplitLines(Tail(s), Append(line, Head(s)))

Lines(s) == SplitLines(s, <<>>)

\* join of the lines with a line feed between them
RECURSIVE Join(_)
Join(ls) ==
  IF ls = <<>> THEN <<>>
  ELSE IF Len(ls) = 1 THEN ls[1]
  ELSE ls[1] \o <<Newline>> \o Join(Tail(ls))

\* Variant: a fence marker is left out but does not switch in_code_block.
RECURSIVE CleanLinesNoToggle(_, _)
CleanLinesNoToggle(ls, in_code_block) ==
  IF ls = <<>> THEN <<>>
  ELSE IF StartsWithFence(Trim(Head(ls)))
         THEN CleanLinesNoToggle(Tail(ls), in_code_block)
  ELSE IF ~in_code_block \/ Trim(Head(ls)) # <<>>
         THEN <<Head(ls)>> \o CleanLinesNoToggle(Tail(ls), in_code_block)
  ELSE CleanLinesNoToggle(Tail(ls), in_code_block)

\* The loop of clean_llm_output over the remaining lines.
RECURSIVE CleanLines(_, _)
CleanLines(ls, in_code_block) ==
  IF ls = <<>> THEN <<>>
  ELSE IF StartsWithFence(Trim(Head(ls)))
         THEN CleanLines(Tail(ls), ~in_code_block)
  ELSE IF ~in_code_block \/ Trim(Head(ls)) # <<>>
         THEN <<Head(ls)>> \o CleanLines(Tail(ls), in_code_block)
  ELSE CleanLines(Tail(ls), in_code_block)

clean_llm_output(output) == Join(CleanLines(Lines(output), FALSE))

\* ----------------------------------------------------------- environment
UserInputs == {"a blog app", "a todo app"}

\* What the backend answers for a component when it answers: a fenced block
\* with a blank line inside for one request text, bare text with a blank
\* line for the other.
Reply(input, file_name) ==
  IF input = "a blog app"
    THEN << Tick, Tick, Tick, Newline, file_name, Newline, Space, Newline,
            "x", Newline, Tick, Tick, Tick, Newline >>
    ELSE << file_name, Newline, Newline, "y" >>

\* clean_llm_output(&response.response) for each request text and component,
\* computed once.
Sanitized ==
  [ input \in UserInputs |->
      [ k \in 1..NumComponents |->
          clean_llm_output(Reply(input, components[k])) ] ]

\* The lines a reply is made of when the sanitizer is examined on its own:
\* empty, blank, indented text, a fence marker, an indented fence marker with
\* a tag, and two ticks, which are no marker.
LineShapes ==
  { <<>>, << Space >>, << Space, "x" >>,
    << Tick, Tick, Tick >>, << Space, Tick, Tick, Tick, "x" >>,
    << Tick, Tick >> }

\* The replies of up to MaxLines such lines, with and without a line feed
\* after the last line.
Texts ==
  LET seqs == UNION { [1..n -> LineShapes] : n \in 0..MaxLines }
  IN  { Join(ls) : ls \in seqs } \cup { Join(ls) \o << Newline >> : ls \in seqs }

\* A path of the file system holds nothing, or one content.
NoFile == <<>>
FileWith(content) == << content >>

\* The budget of environment events a behaviour draws at its start: failures
\* in a single run, two runs that overlap, runs one after the other with
\* resets, or a single run with a failure and resets.
Limits ==
  { [runs |-> 1, faults |-> MaxFaults, resets |-> 0, switches |-> 0],
    [runs |-> 2, faults |-> 0, resets |-> 0, switches |-> MaxSwitches],
    [runs |-> MaxRuns, faults |-> 0, resets |-> MaxResets, switches |-> 0],
    [runs |-> 1, faults |-> 1, resets |-> MaxResets, switches |-> 0] }

\* The budgets under which eventual completion is examined: those of a single
\* run, and two runs that overlap with one preemption.
LiveLimits ==
  { [runs |-> 1, faults |-> MaxFaults, resets |-> 0, switches |-> 0],
    [runs |-> 1, faults |-> 1, resets |-> MaxResets, switches |-> 0],
    [runs |-> 2, faults |-> 0, resets |-> 0, switches |-> 1] }

\* ------------------------------------------------------------------- state
VARIABLES
  progress,      \* the shared Progress record behind the mutex
  guard,         \* the task that holds the MutexGuard of the record (0: none)
  snap,          \* body of the GET /progress response being delivered
  pc,            \* where each run_main_loop task stands
  user_input,    \* the form field each task was spawned with
  i,             \* loop index of each task (0-based)
  history,       \* history["iterations"] of each task
  llm_output,    \* sanitized reply of the step in hand
  file_result,   \* outcome string of the file write of the step in hand
  calls,         \* number of backend requests each task has issued
  finishes,      \* number of times each task ran the final update
  outcomes,      \* how each finished step of each task ended, in order
  dirs,          \* directories that exist
  files,         \* content of each component file under flask_app/
  history_file,  \* content of generation_history.json
  limit,         \* the budget drawn at the start
  faults,        \* failures injected so far
  resets,        \* GET / requests served so far
  switches,      \* preemptions so far
  cur,           \* the task that ran last (0: none yet)
  response,      \* the text clean_llm_output is applied to, examined on its own
  cleaned,       \* what clean_llm_output has returned for it
  passes         \* how many times clean_llm_output has been applied

taskVars == << pc, user_input, i, history, llm_output, file_result, calls, finishes,
              outcomes >>
fsVars == << dirs, files, history_file >>
envVars == << limit, faults, resets, switches, cur >>
sanVars == << response, cleaned, passes >>
vars == << progress, guard, snap, taskVars, fsVars, envVars, sanVars >>

\* #[derive(Default)] for Progress
ProgressDefault ==
  [ status |-> "", iteration |-> 0, max_iteration |-> 0, output |-> <<>>,
    completed |-> FALSE ]

\* No response under way, or the record a response carries.
NoSnapshot == <<>>
SnapshotOf(p) == << p >>

NoText == <<>>

Msg(kind, file, text, result) ==
  [ kind |-> kind, file |-> file, text |-> text, result |-> result ]

Terminal == {"done", "aborted"}

\* The state once main has built the record and the server listens, with a
\* budget drawn from the given ones.
Start(budgets, texts) ==
  /\ progress = ProgressDefault
  /\ guard = 0
  /\ snap = NoSnapshot
  /\ pc = [r \in Runs |-> "unborn"]
  /\ user_input = [r \in Runs |-> ""]
  /\ i = [r \in Runs |-> 0]
  /\ history = [r \in Runs |-> <<>>]
  /\ llm_output = [r \in Runs |-> NoText]
  /\ file_result = [r \in Runs |-> ""]
  /\ calls = [r \in Runs |-> 0]
  /\ finishes = [r \in Runs |-> 0]
  /\ outcomes = [r \in Runs |-> <<>>]
  /\ dirs = {}
  /\ files = [k \in 1..NumComponents |-> NoFile]
  /\ history_file = NoFile
  /\ limit \in budgets
  /\ faults = 0
  /\ resets = 0
  /\ switches = 0
  /\ cur = 0
  /\ response \in texts
  /\ cleaned = NoText
  /\ passes = 0

Init == Start(Limits, {NoText})

InitLive == Start(LiveLimits, {NoText})

\* A reply of the backend, any of Texts, before clean_llm_output is applied;
\* no request has been served.
InitClean ==
  Start({[runs |-> 0, faults |-> 0, resets |-> 0, switches |-> 0]}, Texts)

\* ------------------------------------------------------------------ mutex
\* progress.lock().unwrap() by task r: the caller waits until the mutex is
\* free, then holds the guard.
Acquire(r) == guard = 0 /\ guard' = r

\* Variant: the guard outlives the block of the update.
DropLate(r) == guard = r /\ guard' = r

\* The guard of task r goes out of scope at the end of its block.
Drop(r) == guard = r /\ guard' = 0

\* Variant: the record is read and written without the mutex.
Unguarded == guard' = guard

\* A block that takes the guard, updates the record and ends, in one step.
Critical == guard = 0 /\ guard' = 0

\* ------------------------------------------------------------- scheduling
\* Taking a step of task r leaves the task that ran last; when that one has
\* not ended, the step is a preemption and counts against the budget. A step
\* with a failing outcome counts against the budget of failures. A task that
\* waits for the mutex has given way of itself: leaving it is no preemption.
Waiting(q) ==
  /\ guard # 0
  /\ guard # q
  /\ \/ pc[q] \in {"begin", "sleep", "report", "final"}
     \/ pc[q] = "create_dir" /\ dir_name \in dirs

Preempts(r) ==
  cur # 0 /\ cur # r /\ pc[cur] \notin Terminal /\ ~Waiting(cur)

Take(r, failing) ==
  /\ Preempts(r) => switches < limit.switches
  /\ failing => faults < limit.faults
  /\ cur' = r
  /\ switches' = IF Preempts(r) THEN switches + 1 ELSE switches
  /\ faults' = IF failing THEN faults + 1 ELSE faults
  /\ UNCHANGED << limit, resets, sanVars >>

\* ----------------------------------------------------------- HTTP surface
\* GET /
home ==
  /\ resets < limit.resets
  /\ Critical
  /\ resets' = resets + 1
  /\ progress' = ProgressDefault
  /\ snap' = NoSnapshot
  /\ UNCHANGED << taskVars, fsVars, limit, faults, switches, cur, sanVars >>

\* GET /progress
get_progress ==
  /\ Critical
  /\ snap' = SnapshotOf(progress)
  /\ UNCHANGED << progress, taskVars, fsVars, envVars, sanVars >>

\* POST /: spawn run_main_loop and answer at once.
handle_post(input) ==
  /\ \E r \in Runs :
       /\ r <= limit.runs
       /\ pc[r] = "unborn"
       /\ \A q \in Runs : q < r => pc[q] # "unborn"
       /\ pc' = [pc EXCEPT ![r] = "spawned"]
       /\ user_input' = [user_input EXCEPT ![r] = input]
  /\ snap' = NoSnapshot
  /\ UNCHANGED << progress, guard, i, history, llm_output, file_result, calls,
                  finishes, outcomes, fsVars, envVars, sanVars >>

\* ----------------------------------------------------------- run_main_loop
\* Variant: the loop leaves out the last component.
LoopPcShort(k) == IF k < NumComponents - 1 THEN "sleep" ELSE "history"

\* Where the for loop stands once k components are behind it.
LoopPc(k) == IF k < NumComponents THEN "sleep" ELSE "history"

\* Variant: the messages are put in front of the log.
PrependOutput(p, msgs) == [p EXCEPT !.output = msgs \o @]

\* progress_guard.output += ...
AppendOutput(p, msgs) == [p EXCEPT !.output = @ \o msgs]

\* Variant: iteration counts the components that remain.
IterationCountdown(k) == NumComponents - k

\* Variant: iteration is the 0-based loop index.
IterationZeroBased(k) == k

\* i as u32 + 1
IterationAt(k) == k + 1

\* Variant: the step field is the 0-based loop index.
HistoryEntryZeroBased(k, operation, content) ==
  [ step |-> k,
    file_name |-> components[k + 1],
    file_operation |-> operation,
    file_content |-> content ]

\* The record pushed to history["iterations"] for the component of index k.
HistoryEntry(k, operation, content) ==
  [ step |-> k + 1,
    file_name |-> components[k + 1],
    file_operation |-> operation,
    file_content |-> content ]

\* Variant: the loop passes over the component after the one it has dealt with.
EndStepSkipping(r, outcome) ==
  /\ i' = [i EXCEPT ![r] = @ + 2]
  /\ pc' = [pc EXCEPT ![r] = LoopPc(i[r] + 2)]
  /\ outcomes' = [outcomes EXCEPT ![r] = Append(@, outcome)]
  /\ llm_output' = [llm_output EXCEPT ![r] = NoText]
  /\ file_result' = [file_result EXCEPT ![r] = ""]

\* The end of one pass through the loop body, with the given outcome.
EndStep(r, outcome) ==
  /\ i' = [i EXCEPT ![r] = @ + 1]
  /\ pc' = [pc EXCEPT ![r] = LoopPc(i[r] + 1)]
  /\ outcomes' = [outcomes EXCEPT ![r] = Append(@, outcome)]
  /\ llm_output' = [llm_output EXCEPT ![r] = NoText]
  /\ file_result' = [file_result EXCEPT ![r] = ""]

\* if !app_dir.exists()
CheckRoot(r) ==
  /\ pc[r] = "spawned"
  /\ Take(r, FALSE)
  /\ UNCHANGED guard
  /\ pc' = [pc EXCEPT ![r] = IF dir_name \in dirs THEN "begin" ELSE "create_dir"]
  /\ snap' = NoSnapshot
  /\ UNCHANGED << progress, user_input, i, history, llm_output, file_result,
                  calls, finishes, outcomes, fsVars >>

\* fs::create_dir(app_dir) succeeds.
CreateRoot(r) ==
  /\ pc[r] = "create_dir"
  /\ dir_name \notin dirs
  /\ Take(r, FALSE)
  /\ UNCHANGED guard
  /\ dirs' = dirs \cup {dir_name}
  /\ pc' = [pc EXCEPT ![r] = "begin"]
  /\ snap' = NoSnapshot
  /\ UNCHANGED << progress, user_input, i, history, llm_output, file_result,
                  calls, finishes, outcomes, files, history_file >>

\* Variant: the error is reported and the task goes on to its initial update.
CreateRootErrNoReturn(r) ==
  /\ pc[r] = "create_dir"
  /\ Take(r, dir_name \notin dirs)
  /\ Critical
  /\ progress' = AppendOutput(progress,
                   << Msg("Error creating directory", dir_name, NoText, "") >>)
  /\ pc' = [pc EXCEPT ![r] = "begin"]
  /\ snap' = NoSnapshot
  /\ UNCHANGED << user_input, i, history, llm_output, file_result, calls,
                  finishes, outcomes, fsVars >>

\* fs::create_dir(app_dir) fails (an I/O error, or the directory has appeared
\* since the test): the error goes to output and the task returns.
CreateRootErr(r) ==
  /\ pc[r] = "create_dir"
  /\ Take(r, dir_name \notin dirs)
  /\ Critical
  /\ progress' = AppendOutput(progress,
                   << Msg("Error creating directory", dir_name, NoText, "") >>)
  /\ pc' = [pc EXCEPT ![r] = "aborted"]
  /\ snap' = NoSnapshot
  /\ UNCHANGED << user_input, i, history, llm_output, file_result, calls,
                  finishes, outcomes, fsVars >>

\* Initial update: the guard is taken, status and iteration are written.
Begin(r) ==
  /\ pc[r] = "begin"
  /\ Take(r, FALSE)
  /\ Acquire(r)
  /\ progress' = [progress EXCEPT !.status = "running", !.iteration = 0]
  /\ pc' = [pc EXCEPT ![r] = "begin_held"]
  /\ snap' = NoSnapshot
  /\ UNCHANGED << user_input, i, history, llm_output, file_result, calls,
                  finishes, outcomes, fsVars >>

\* Variant: the initial update adds its message to the output it finds.
BeginEndKeepingOutput(r) ==
  /\ pc[r] = "begin_held"
  /\ Take(r, FALSE)
  /\ Drop(r)
  /\ progress' = [progress EXCEPT
       !.output = Append(@, Msg("Using application directory", dir_name,
                                NoText, "")),
       !.completed = FALSE]
  /\ history' = [history EXCEPT ![r] = <<>>]
  /\ i' = [i EXCEPT ![r] = 0]
  /\ pc' = [pc EXCEPT ![r] = LoopPc(0)]
  /\ snap' = NoSnapshot
  /\ UNCHANGED << user_input, llm_output, file_result, calls, finishes,
                  outcomes, fsVars >>

\* Initial update: output and completed are written and the block ends; then
\* the history and the loop start.
BeginEnd(r) ==
  /\ pc[r] = "begin_held"
  /\ Take(r, FALSE)
  /\ Drop(r)
  /\ progress' = [progress EXCEPT
       !.output = << Msg("Using application directory", dir_name, NoText, "") >>,
       !.completed = FALSE]
  /\ history' = [history EXCEPT ![r] = <<>>]
  /\ i' = [i EXCEPT ![r] = 0]
  /\ pc' = [pc EXCEPT ![r] = LoopPc(0)]
  /\ snap' = NoSnapshot
  /\ UNCHANGED << user_input, llm_output, file_result, calls, finishes,
                  outcomes, fsVars >>

\* The pacing delay is over: update progress and send the request.
Advance(r) ==
  /\ pc[r] = "sleep"
  /\ Take(r, FALSE)
  /\ Critical
  /\ progress' = [progress EXCEPT
       !.iteration = IterationAt(i[r]),
       !.output = Append(@, Msg("Generating or updating", components[i[r] + 1],
                                NoText, ""))]
  /\ calls' = [calls EXCEPT ![r] = @ + 1]
  /\ pc' = [pc EXCEPT ![r] = "generate"]
  /\ snap' = NoSnapshot
  /\ UNCHANGED << user_input, i, history, llm_output, file_result, finishes,
                  outcomes, fsVars >>

\* Variant: a backend error ends the task.
GenerateErrReturn(r) ==
  /\ pc[r] = "generate"
  /\ Take(r, TRUE)
  /\ Critical
  /\ progress' = AppendOutput(progress,
                   << Msg("Error in LLM interaction", "", NoText, "") >>)
  /\ pc' = [pc EXCEPT ![r] = "aborted"]
  /\ snap' = NoSnapshot
  /\ UNCHANGED << user_input, i, history, llm_output, file_result, calls,
                  finishes, outcomes, fsVars >>

\* ollama.generate answers Err(e).
GenerateErr(r) ==
  /\ pc[r] = "generate"
  /\ Take(r, TRUE)
  /\ Critical
  /\ progress' = AppendOutput(progress,
                   << Msg("Error in LLM interaction", "", NoText, "") >>)
  /\ EndStep(r, "llm_error")
  /\ snap' = NoSnapshot
  /\ UNCHANGED << user_input, history, calls, finishes, fsVars >>

\* ollama.generate answers Ok(response); the reply is sanitized and the
\* parent directory of the file is there or created.
GenerateOk(r) ==
  /\ pc[r] = "generate"
  /\ Take(r, FALSE)
  /\ UNCHANGED guard
  /\ llm_output' = [llm_output EXCEPT ![r] = Sanitized[user_input[r]][i[r] + 1]]
  /\ dirs' = dirs \cup {dir_name, ParentOf(components[i[r] + 1])}
  /\ pc' = [pc EXCEPT ![r] = "write"]
  /\ snap' = NoSnapshot
  /\ UNCHANGED << progress, user_input, i, history, file_result, calls,
                  finishes, outcomes, files, history_file >>

\* Variant: a failure to create the parent directory ends the task.
ParentErrReturn(r) ==
  /\ pc[r] = "generate"
  /\ Take(r, TRUE)
  /\ Critical
  /\ progress' = AppendOutput(progress,
                   << Msg("Error creating directory",
                          ParentOf(components[i[r] + 1]), NoText, "") >>)
  /\ pc' = [pc EXCEPT ![r] = "aborted"]
  /\ snap' = NoSnapshot
  /\ UNCHANGED << user_input, i, history, llm_output, file_result, calls,
                  finishes, outcomes, fsVars >>

\* ollama.generate answers Ok(response) and fs::create_dir_all(parent) fails:
\* the error goes to output and the loop continues with the next component.
ParentErr(r) ==
  /\ pc[r] = "generate"
  /\ Take(r, TRUE)
  /\ Critical
  /\ progress' = AppendOutput(progress,
                   << Msg("Error creating directory",
                          ParentOf(components[i[r] + 1]), NoText, "") >>)
  /\ EndStep(r, "dir_error")
  /\ snap' = NoSnapshot
  /\ UNCHANGED << user_input, history, calls, finishes, fsVars >>

\* Variant: the file gets the reply as the backend sent it.
WriteFileRaw(r) ==
  /\ pc[r] = "write"
  /\ Take(r, FALSE)
  /\ UNCHANGED guard
  /\ files' = [files EXCEPT ![i[r] + 1] =
                 FileWith(Reply(user_input[r], components[i[r] + 1]))]
  /\ file_result' = [file_result EXCEPT ![r] = "Created/Updated file"]
  /\ pc' = [pc EXCEPT ![r] = "report"]
  /\ snap' = NoSnapshot
  /\ UNCHANGED << progress, user_input, i, history, llm_output, calls,
                  finishes, outcomes, dirs, history_file >>

\* fs::write(&file_path, &llm_output) succeeds.
WriteFile(r) ==
  /\ pc[r] = "write"
  /\ Take(r, FALSE)
  /\ UNCHANGED guard
  /\ files' = [files EXCEPT ![i[r] + 1] = FileWith(llm_output[r])]
  /\ file_result' = [file_result EXCEPT ![r] = "Created/Updated file"]
  /\ pc' = [pc EXCEPT ![r] = "report"]
  /\ snap' = NoSnapshot
  /\ UNCHANGED << progress, user_input, i, history, llm_output, calls,
                  finishes, outcomes, dirs, history_file >>

\* Variant: a failed write ends the pass through the loop body.
WriteFileErrSkips(r) ==
  /\ pc[r] = "write"
  /\ Take(r, TRUE)
  /\ UNCHANGED guard
  /\ EndStep(r, "write_error")
  /\ snap' = NoSnapshot
  /\ UNCHANGED << progress, user_input, history, calls, finishes, fsVars >>

\* fs::write(&file_path, &llm_output) fails.
WriteFileErr(r) ==
  /\ pc[r] = "write"
  /\ Take(r, TRUE)
  /\ UNCHANGED guard
  /\ file_result' = [file_result EXCEPT ![r] = "Error creating/updating file"]
  /\ pc' = [pc EXCEPT ![r] = "report"]
  /\ snap' = NoSnapshot
  /\ UNCHANGED << progress, user_input, i, history, llm_output, calls,
                  finishes, outcomes, fsVars >>

\* Update progress with the reply and the file operation; update history.
Report(r) ==
  /\ pc[r] = "report"
  /\ Take(r, FALSE)
  /\ Critical
  /\ progress' = AppendOutput(progress,
       << Msg("LLM Output for", components[i[r] + 1], llm_output[r], ""),
          Msg("File operation", components[i[r] + 1], NoText, file_result[r]) >>)
  /\ history' = [history EXCEPT ![r] =
       Append(@, HistoryEntry(i[r], file_result[r], llm_output[r]))]
  /\ EndStep(r, IF file_result[r] = "Created/Updated file"
                  THEN "written" ELSE "write_error")
  /\ snap' = NoSnapshot
  /\ UNCHANGED << user_input, calls, finishes, fsVars >>

\* Log history to file: the write succeeds.
WriteHistory(r) ==
  /\ pc[r] = "history"
  /\ Take(r, FALSE)
  /\ UNCHANGED guard
  /\ history_file' = FileWith([ iterations |-> history[r],
                                 app_directory |-> dir_name ])
  /\ pc' = [pc EXCEPT ![r] = "final"]
  /\ snap' = NoSnapshot
  /\ UNCHANGED << progress, user_input, i, history, llm_output, file_result,
                  calls, finishes, outcomes, dirs, files >>

\* Variant: a failure to write the history ends the task.
WriteHistoryErrReturn(r) ==
  /\ pc[r] = "history"
  /\ Take(r, TRUE)
  /\ Critical
  /\ progress' = AppendOutput(progress,
                   << Msg("Error writing history file", history_file_path,
                          NoText, "") >>)
  /\ pc' = [pc EXCEPT ![r] = "aborted"]
  /\ snap' = NoSnapshot
  /\ UNCHANGED << user_input, i, history, llm_output, file_result, calls,
                  finishes, outcomes, fsVars >>

\* Log history to file: the write fails and the error goes to output.
WriteHistoryErr(r) ==
  /\ pc[r] = "history"
  /\ Take(r, TRUE)
  /\ Critical
  /\ progress' = AppendOutput(progress,
                   << Msg("Error writing history file", history_file_path,
                          NoText, "") >>)
  /\ pc' = [pc EXCEPT ![r] = "final"]
  /\ snap' = NoSnapshot
  /\ UNCHANGED << user_input, i, history, llm_output, file_result, calls,
                  finishes, outcomes, fsVars >>

\* Final update: the guard is taken and status is written.
Finish(r) ==
  /\ pc[r] = "final"
  /\ Take(r, FALSE)
  /\ Acquire(r)
  /\ progress' = [progress EXCEPT !.status = "completed"]
  /\ pc' = [pc EXCEPT ![r] = "final_held"]
  /\ snap' = NoSnapshot
  /\ UNCHANGED << user_input, i, history, llm_output, file_result, calls,
                  finishes, outcomes, fsVars >>

\* Final update: completed and the closing messages are written and the
\* block ends; the task returns.
FinishEnd(r) ==
  /\ pc[r] = "final_held"
  /\ Take(r, FALSE)
  /\ Drop(r)
  /\ progress' = [progress EXCEPT
       !.completed = TRUE,
       !.output = @ \o << Msg("Flask application generation/update completed",
                              dir_name, NoText, ""),
                          Msg("Redirecting to main page in 3 seconds",
                              "", NoText, "") >>]
  /\ finishes' = [finishes EXCEPT ![r] = @ + 1]
  /\ pc' = [pc EXCEPT ![r] = "done"]
  /\ snap' = NoSnapshot
  /\ UNCHANGED << user_input, i, history, llm_output, file_result, calls,
                  outcomes, fsVars >>

\* One step of task r.
Step(r) ==
  \/ CheckRoot(r)
  \/ CreateRoot(r)
  \/ CreateRootErr(r)
  \/ Begin(r)
  \/ BeginEnd(r)
  \/ Advance(r)
  \/ GenerateErr(r)
  \/ GenerateOk(r)
  \/ ParentErr(r)
  \/ WriteFile(r)
  \/ WriteFileErr(r)
  \/ Report(r)
  \/ WriteHistory(r)
  \/ WriteHistoryErr(r)
  \/ Finish(r)
  \/ FinishEnd(r)

Next ==
  \/ home
  \/ get_progress
  \/ \E input \in UserInputs : handle_post(input)
  \/ \E r \in Runs : Step(r)

Spec == Init /\ [][Next]_vars

\* run_main_loop is scheduled when it can take a step, and every backend call
\* it makes comes back.
FairSpec == InitLive /\ [][Next]_vars /\ \A r \in Runs : WF_vars(Step(r))

\* -------------------------------------------------------- clean_llm_output
\* let llm_output = clean_llm_output(&response.response), taken on its own.
Clean ==
  /\ passes = 0
  /\ cleaned' = clean_llm_output(response)
  /\ passes' = 1
  /\ UNCHANGED << response, progress, guard, snap, taskVars, fsVars, envVars >>

\* clean_llm_output applied to the text it has returned.
CleanAgain ==
  /\ passes = 1
  /\ response' = cleaned
  /\ cleaned' = clean_llm_output(cleaned)
  /\ passes' = 2
  /\ UNCHANGED << progress, guard, snap, taskVars, fsVars, envVars >>

NextClean ==
  \/ Clean
  \/ CleanAgain

SpecClean == InitClean /\ [][NextClean]_vars

\* ------------------------------------------------------------------ claims
\* Task r is between its initial update and its final update.
InRun(r) ==
  pc[r] \in {"sleep", "generate", "write", "report", "history", "final",
            "final_held"}

\* Task r has found or created its output root and its last step has not
\* resolved yet.
InFlight(r) ==
  pc[r] \in {"begin", "begin_held", "sleep", "generate", "write", "report"}

\* C1: a run whose output root could be created sets completed to true
\* exactly once, and only after all the file-spec steps have been attempted,
\* whatever their outcomes; completed is true only if some run did so.
C1_CompletedOnceAfterAllSteps ==
  /\ \A r \in Runs :
       /\ finishes[r] <= 1
       /\ (pc[r] = "done") <=> (finishes[r] = 1)
       /\ finishes[r] = 1 =>
            /\ calls[r] = 9
            /\ Len(outcomes[r]) = 9
            /\ i[r] = Len(components)
       /\ pc[r] = "aborted" => calls[r] = 0
  /\ progress.completed => \E r \in Runs : finishes[r] = 1

\* A run has ended with completed set, after steps that failed and steps that
\* wrote their file.
C1_Witness ==
  \E r \in Runs :
    /\ pc[r] = "done"
    /\ progress.completed
    /\ \E k \in 1..Len(outcomes[r]) : outcomes[r][k] = "llm_error"
    /\ \E k \in 1..Len(outcomes[r]) : outcomes[r][k] = "written"

\* C2: every GET /progress snapshot taken after a submission has returned
\* and before that run's last step resolves shows status "running" and
\* completed false.
C2_RunningUntilLastStep ==
  (snap # NoSnapshot /\ \E r \in Runs : InFlight(r)) =>
    (snap[1].status = "running" /\ snap[1].completed = FALSE)

\* C3: iteration never exceeds max_iteration.
C3_IterationWithinMax == progress.iteration <= progress.max_iteration

\* C4: once a run has begun and until it finishes, max_iteration is the
\* number of entries of the file specification.
C4_MaxIterationIsFileCount ==
  (\E r \in Runs : InRun(r)) => progress.max_iteration = Len(components)

\* C5 as stated: over a run, from its begin to its finish, no observation of
\* iteration is smaller than an earlier one.
C5_IterationMonotone ==
  [][ (\E r \in Runs : InRun(r) /\ InRun(r)') =>
        progress'.iteration >= progress.iteration ]_vars

\* C5, amended: iteration is lowered only by a GET / reset, by a begin (to 0)
\* or by the advance of a run when another run has been submitted too; so it
\* is non-decreasing over a run with no reset and no other run beside it.
C5_IterationLoweredOnlyByResetOrOtherRun ==
  [][ progress'.iteration < progress.iteration =>
        \/ home
        \/ \E r \in Runs : Begin(r)
        \/ \E r \in Runs : Advance(r) /\ \E q \in Runs \ {r} : pc[q] # "unborn" ]_vars

\* A run alone, with no reset, has ended and iteration has reached the number
\* of components.
C5_Witness ==
  \E r \in Runs :
    /\ pc[r] = "done"
    /\ \A q \in Runs \ {r} : pc[q] = "unborn"
    /\ resets = 0
    /\ progress.iteration = Len(components)

\* The steps of task r that have left an entry in its history.
StepsWithEntry(r) ==
  { k \in 1..Len(outcomes[r]) : outcomes[r][k] \in {"written", "write_error"} }

\* C6: the history holds no entry for a step whose backend call failed and
\* exactly one entry for every other step that got its content, in increasing
\* step order, each with the 1-based index of its file as step; the history
\* artifact is the history of a run that has come to its end.
C6_HistoryMatchesSuccessfulSteps ==
  /\ \A r \in Runs :
       /\ Len(history[r]) = Cardinality(StepsWithEntry(r))
       /\ \A n \in 1..Len(history[r]) :
            /\ history[r][n].step \in StepsWithEntry(r)
            /\ history[r][n].file_name = components[history[r][n].step]
       /\ \A m, n \in 1..Len(history[r]) :
            m < n => history[r][m].step < history[r][n].step
  /\ history_file # NoFile =>
       \E r \in Runs :
         /\ pc[r] \in {"final", "final_held", "done"}
         /\ history_file[1].iterations = history[r]

\* The backend call of step 3 alone has failed and the artifact lists the
\* steps 1, 2, 4, ..., 9.
C6_Witness ==
  \E r \in Runs :
    /\ pc[r] = "done"
    /\ outcomes[r][3] = "llm_error"
    /\ history_file # NoFile
    /\ history_file[1].iterations = history[r]
    /\ [n \in 1..Len(history[r]) |-> history[r][n].step] = <<1, 2, 4, 5, 6, 7, 8, 9>>

\* C7: when the output root cannot be created the run appends an error to
\* output and ends there: status, iteration and completed keep their values,
\* nothing is written to the file system, no backend call is made and the
\* run never sets completed.
C7_RootFailureAborts ==
  [][ \A r \in Runs :
        /\ (pc[r] = "create_dir" /\ pc'[r] # "create_dir" /\ dirs' = dirs) =>
             /\ pc'[r] = "aborted"
             /\ progress' = [progress EXCEPT !.output =
                  Append(@, Msg("Error creating directory", dir_name, NoText, ""))]
             /\ UNCHANGED << fsVars, calls, finishes, history, outcomes >>
        /\ pc[r] = "aborted" =>
             /\ pc'[r] = "aborted"
             /\ calls'[r] = 0
             /\ finishes'[r] = 0
             /\ outcomes'[r] = <<>>
        /\ (pc'[r] = "aborted" /\ limit.runs = 1) =>
             /\ \A k \in 1..Len(components) : files'[k] = NoFile
             /\ history_file' = NoFile ]_vars

\* A run has ended on the failure to create the output root.
C7_Witness ==
  \E r \in Runs :
    /\ pc[r] = "aborted"
    /\ faults > 0
    /\ progress.output # <<>>
    /\ progress.output[Len(progress.output)].kind = "Error creating directory"
    /\ ~progress.completed

\* The error messages of a step of task r that is skipped.
SkipMessages(r) ==
  { Msg("Error in LLM interaction", "", NoText, ""),
    Msg("Error creating directory", ParentOf(components[i[r] + 1]), NoText, "") }

\* C8: when the backend call of a step fails, or the parent directory of its
\* file cannot be created, the step is skipped: no file is written, no history
\* entry is added, one error message is appended to output while status and
\* completed (and iteration) stay, and the run goes on to the next component.
C8_FailedStepSkipped ==
  [][ \A r \in Runs :
        (pc[r] = "generate" /\ pc'[r] \notin {"generate", "write"}) =>
          /\ files' = files
          /\ history_file' = history_file
          /\ history'[r] = history[r]
          /\ \E m \in SkipMessages(r) :
               progress' = [progress EXCEPT !.output = Append(@, m)]
          /\ i'[r] = i[r] + 1
          /\ pc'[r] = IF i[r] + 1 < Len(components) THEN "sleep" ELSE "history" ]_vars

\* A run has come to its end after a step whose backend call failed and a
\* step whose parent directory could not be created.
C8_Witness ==
  \E r \in Runs :
    /\ pc[r] = "done"
    /\ \E k \in 1..Len(outcomes[r]) : outcomes[r][k] = "llm_error"
    /\ \E k \in 1..Len(outcomes[r]) : outcomes[r][k] = "dir_error"

\* C9: a run that has found or created its output root eventually runs its
\* final update, whatever fails and whatever requests are served meanwhile.
C9_RunCompletes ==
  \A r \in Runs : (pc[r] = "begin") ~> (pc[r] = "done" /\ finishes[r] = 1)

\* A run has ended although one of its steps failed and a GET / was served.
C9_Witness ==
  \E r \in Runs :
    /\ pc[r] = "done"
    /\ progress.completed
    /\ faults > 0
    /\ resets > 0

\* No request has been served and no task spawned yet.
AtStart == resets = 0 /\ \A r \in Runs : pc[r] = "unborn"

IsIdle(p) ==
  /\ p.status = "idle"
  /\ p.iteration = 0
  /\ p.output = <<>>
  /\ p.completed = FALSE

\* C10: at process start and right after every GET / the record has status
\* idle, iteration 0, an empty output and completed false.
C10_IdleAtStartAndAfterReset ==
  [][ /\ AtStart => IsIdle(progress)
      /\ home => IsIdle(progress') ]_vars

\* The backend calls task r has made that have not been dealt with to the end
\* of their pass through the loop.
Outstanding(r) == calls[r] - Len(outcomes[r])

\* C11: within one run the steps are taken in the order of the file
\* specification and one at a time: a run has at most one step under way, a
\* backend call is outstanding only for that step, and the progress update
\* and backend call of the next step come only when every earlier step has
\* ended, for the component that follows the last one dealt with.
C11_StepsInOrderOneAtATime ==
  /\ [](\A r \in Runs :
         /\ Outstanding(r) \in {0, 1}
         /\ pc[r] \in {"generate", "write", "report"} <=> Outstanding(r) = 1
         /\ pc[r] = "generate" => i[r] + 1 = calls[r])
  /\ [][ \A r \in Runs :
          calls'[r] # calls[r] =>
            /\ Outstanding(r) = 0
            /\ pc[r] = "sleep" /\ pc'[r] = "generate"
            /\ calls'[r] = calls[r] + 1
            /\ i[r] = calls[r]
            /\ progress'.iteration = calls'[r]
            /\ progress'.output[Len(progress'.output)] =
                 Msg("Generating or updating", components[calls'[r]], NoText, "") ]_vars

\* The backend call of the second step is outstanding, after a first step
\* whose backend call failed.
C11_Witness ==
  \E r \in Runs :
    /\ pc[r] = "generate"
    /\ calls[r] = 2
    /\ outcomes[r] = << "llm_error" >>

\* C12: a run holds the guard of the progress record only inside a block that
\* updates the record: never during the pacing delay, while a backend call is
\* outstanding, or during a file or history write; so whoever holds the guard
\* stands before the end of an update, not before an await.
C12_LockOnlyWhileUpdating ==
  /\ guard \in {0} \cup Runs
  /\ \A r \in Runs :
       /\ guard = r => pc[r] \in {"begin_held", "final_held"}
       /\ pc[r] \in {"sleep", "generate", "write", "report", "history"} => guard # r

\* A run is inside its initial update, holding the guard, while the backend
\* call of another run is outstanding.
C12_Witness ==
  \E r, q \in Runs :
    /\ r # q
    /\ guard = r
    /\ pc[r] = "begin_held"
    /\ pc[q] = "generate"

\* The log a is a prefix of the log b.
IsPrefix(a, b) == Len(a) <= Len(b) /\ SubSeq(b, 1, Len(a)) = a

\* C13 as stated: between the begin and the finish of a run every value of
\* output extends the value before it.
C13_OutputAppendOnly ==
  [][ (\E r \in Runs : InRun(r) /\ InRun(r)') =>
        IsPrefix(progress.output, progress'.output) ]_vars

\* C13, amended: output is extended by every step but a GET / reset, which
\* empties it, and the initial update of a run, which replaces it by the
\* message of the output root; so it only grows over a run with no reset and
\* no initial update of another run in between, and only a reset empties it.
C13_OutputCutOnlyByResetOrBegin ==
  [][ /\ ~IsPrefix(progress.output, progress'.output) =>
           \/ home
           \/ \E r \in Runs : BeginEnd(r)
      /\ (progress.output # <<>> /\ progress'.output = <<>>) => home ]_vars

\* A run alone, with no reset, has ended: output holds the message of the
\* output root, three messages for each component and the two closing ones.
C13_Witness ==
  \E r \in Runs :
    /\ pc[r] = "done"
    /\ \A q \in Runs \ {r} : pc[q] = "unborn"
    /\ resets = 0
    /\ faults = 0
    /\ Len(progress.output) = 1 + 3 * Len(components) + 2

\* C14: the initial update of a run, made once its output root is there, is
\* one update under the guard: nobody reads or writes the record between its
\* first and its last assignment, and at its end status is running,
\* iteration 0, completed false and output holds the message of the output
\* root alone, whatever an earlier run or request has left in the record.
C14_BeginResetsRecord ==
  [][ \A r \in Runs :
        /\ (pc[r] = "begin" /\ pc'[r] # "begin") =>
             /\ dir_name \in dirs
             /\ pc'[r] = "begin_held"
             /\ guard' = r
        /\ (pc[r] = "begin_held" /\ pc'[r] = "begin_held") =>
             /\ progress' = progress
             /\ snap' = NoSnapshot
        /\ (pc[r] = "begin_held" /\ pc'[r] # "begin_held") =>
             /\ guard' = 0
             /\ progress' =
                  [ status |-> "running",
                    iteration |-> 0,
                    max_iteration |-> progress.max_iteration,
                    output |-> << Msg("Using application directory", dir_name,
                                      NoText, "") >>,
                    completed |-> FALSE ] ]_vars

\* A second run has just made its initial update over the record that a first
\* run left completed.
C14_Witness ==
  \E r, q \in Runs :
    /\ pc[q] = "done"
    /\ finishes[q] = 1
    /\ resets = 0
    /\ pc[r] = "sleep"
    /\ calls[r] = 0
    /\ progress.status = "running"
    /\ progress.completed = FALSE
    /\ Len(progress.output) = 1

\* The message of a failed history write is the last of the log.
HistoryErrorLast ==
  /\ progress.output # <<>>
  /\ progress.output[Len(progress.output)] =
       Msg("Error writing history file", history_file_path, NoText, "")

\* C15: when the write of the history artifact fails, the error is appended
\* to output, nothing else changes and the run goes on to its final update,
\* which it eventually completes; the final update sets status to completed
\* and completed to true whether the history was written or not.
C15_HistoryFailureStillFinishes ==
  /\ [][ \A r \in Runs :
          /\ (pc[r] = "history" /\ pc'[r] # "history" /\ faults' # faults) =>
               /\ progress' = [progress EXCEPT !.output =
                    Append(@, Msg("Error writing history file",
                                  history_file_path, NoText, ""))]
               /\ history_file' = history_file
               /\ pc'[r] = "final"
          /\ (pc[r] # "done" /\ pc'[r] = "done") =>
               /\ progress'.status = "completed"
               /\ progress'.completed = TRUE
               /\ finishes'[r] = 1 ]_vars
  /\ \A r \in Runs :
       (pc[r] = "final" /\ HistoryErrorLast) ~> (pc[r] = "done" /\ finishes[r] = 1)

\* A run has ended with completed set although its history was not written.
C15_Witness ==
  \E r \in Runs :
    /\ pc[r] = "done"
    /\ progress.status = "completed"
    /\ progress.completed
    /\ history_file = NoFile
    /\ \E n \in 1..Len(progress.output) :
         progress.output[n].kind = "Error writing history file"

\* Task r is the only run submitted and nothing has failed.
AloneNoFailure(r) ==
  /\ pc[r] # "unborn"
  /\ \A q \in Runs \ {r} : pc[q] = "unborn"
  /\ faults = 0

\* C16: for a single run with no backend or file-system failure, when
\* completed is true the nine files of the file specification exist, each
\* with the sanitized reply of its own step, and the history artifact has
\* been written with nine entries, for the steps 1 to 9 in this order, each
\* with the file name, the outcome and the content of its step.
C16_AllFilesAndHistoryAtCompletion ==
  \A r \in Runs :
    (AloneNoFailure(r) /\ progress.completed) =>
      /\ dir_name \in dirs
      /\ \A k \in 1..Len(components) :
           /\ ParentOf(components[k]) \in dirs
           /\ files[k] = FileWith(Sanitized[user_input[r]][k])
      /\ history_file # NoFile
      /\ history_file[1].app_directory = dir_name
      /\ Len(history_file[1].iterations) = 9
      /\ \A k \in 1..9 :
           history_file[1].iterations[k] =
             [ step |-> k,
               file_name |-> components[k],
               file_operation |-> "Created/Updated file",
               file_content |-> Sanitized[user_input[r]][k] ]

\* A single run with no failure has ended with completed set; the reply to
\* its request came fenced, so each file differs from the reply it was made
\* from.
C16_Witness ==
  \E r \in Runs :
    /\ AloneNoFailure(r)
    /\ pc[r] = "done"
    /\ progress.completed
    /\ user_input[r] = "a blog app"
    /\ files[9] # FileWith(Reply(user_input[r], components[9]))
    /\ files[9] # NoFile

\* C17: clean_llm_output applied to its own result returns that result
\* unchanged.
C17_SanitizerIdempotent == passes = 2 => cleaned = response

\* The line is a fence marker.
IsFenceLine(line) == StartsWithFence(Trim(line))

\* The line is empty or made of white space.
IsBlank(line) == \A k \in 1..Len(line) : IsSpace(line[k])

\* The fence markers of ls come in pairs.
Balanced(ls) ==
  Cardinality({ j \in 1..Len(ls) : IsFenceLine(ls[j]) }) % 2 = 0

\* Line k of ls stands after an odd number of fence markers.
InsideFence(ls, k) ==
  Cardinality({ j \in 1..(k - 1) : IsFenceLine(ls[j]) }) % 2 = 1

\* Line k of ls is to be kept: no fence marker, and no blank line inside a
\* fence.
KeptAt(ls, k) ==
  /\ ~IsFenceLine(ls[k])
  /\ ~(InsideFence(ls, k) /\ IsBlank(ls[k]))

\* The lines to be kept among the first k of ls, in their order.
RECURSIVE KeptUpTo(_, _)
KeptUpTo(ls, k) ==
  IF k = 0 THEN <<>>
  ELSE KeptUpTo(ls, k - 1) \o (IF KeptAt(ls, k) THEN << ls[k] >> ELSE <<>>)

\* C18: for a text whose fence markers are balanced the result is the lines
\* of the text in their order, joined by line feeds, without the fence
\* markers and without the blank lines inside a fence; the other lines inside
\* a fence and all lines outside, blank ones too, are there unchanged.
C18_SanitizerKeepsLines ==
  (passes = 1 /\ Balanced(Lines(response))) =>
    cleaned = Join(KeptUpTo(Lines(response), Len(Lines(response))))

\* The sanitizer has dealt with a text of a blank line, then a fence that
\* holds an empty line and an indented line, and has returned the blank line
\* and the indented line.
C18_Witness ==
  /\ passes = 1
  /\ Lines(response) = << << Space >>, << Tick, Tick, Tick >>, <<>>,
                          << Space, "x" >>, << Tick, Tick, Tick >> >>
  /\ cleaned = << Space, Newline, Space, "x" >>

\* C19: every snapshot a GET /progress returns is the whole record as it
\* stood at the instant of the read, taken while nobody holds the guard, and
\* in every snapshot completed is true exactly when status is completed,
\* whatever runs, resets and polls are interleaved.
C19_SnapshotsAreWholeAndConsistent ==
  /\ [](snap # NoSnapshot =>
          (snap[1].completed <=> snap[1].status = "completed"))
  /\ [][ snap' # NoSnapshot =>
            /\ guard = 0
            /\ snap' = SnapshotOf(progress)
            /\ progress' = progress ]_vars

\* A poll is answered with the completed record of a first run while a second
\* run has been submitted and has not yet made its initial update.
C19_Witness ==
  /\ snap # NoSnapshot
  /\ snap[1].completed
  /\ snap[1].status = "completed"
  /\ \E r \in Runs : pc[r] \in {"spawned", "create_dir", "begin"}

\* C20: a failure of the file write, after the backend call and the creation
\* of the parent directory have succeeded, does not skip the step: no file is
\* written, the outcome is reported, a history entry is added whose
\* file_operation is the error outcome and whose file_content is the
\* sanitized text, and the run goes on; so the history has one entry for
\* every step whose backend call and parent directory succeeded, which may
\* be more than the files written.
C20_WriteFailureKeepsHistoryEntry ==
  /\ [](\A r \in Runs :
         Len(history[r]) =
           Cardinality({ k \in 1..Len(outcomes[r]) :
                           outcomes[r][k] \notin {"llm_error", "dir_error"} }))
  /\ [][ \A r \in Runs :
          /\ (pc[r] = "write" /\ pc'[r] # "write" /\ faults' # faults) =>
               /\ files' = files
               /\ pc'[r] = "report"
               /\ file_result'[r] = "Error creating/updating file"
          /\ (pc[r] = "report" /\ pc'[r] # "report"
                /\ file_result[r] = "Error creating/updating file") =>
               /\ history'[r] = Append(history[r],
                    [ step |-> i[r] + 1,
                      file_name |-> components[i[r] + 1],
                      file_operation |-> "Error creating/updating file",
                      file_content |-> Sanitized[user_input[r]][i[r] + 1] ])
               /\ progress'.output = progress.output \o
                    << Msg("LLM Output for", components[i[r] + 1],
                           Sanitized[user_input[r]][i[r] + 1], ""),
                       Msg("File operation", components[i[r] + 1], NoText,
                           "Error creating/updating file") >>
               /\ files' = files
               /\ i'[r] = i[r] + 1
               /\ pc'[r] = IF i[r] + 1 < Len(components) THEN "sleep" ELSE "history" ]_vars

\* A run has ended after the write of its second file failed: the file is
\* not there, and the history has its nine entries, the second with the error
\* outcome.
C20_Witness ==
  \E r \in Runs :
    /\ pc[r] = "done"
    /\ outcomes[r][2] = "write_error"
    /\ files[2] = NoFile
    /\ Len(history[r]) = 9
    /\ history[r][2].file_operation = "Error creating/updating file"
    /\ history[r][2].file_content = Sanitized[user_input[r]][2]

\* C21: under any interleaving of overlapping runs, resets and polls,
\* iteration lies between 0 and the number of components, and it is 0 only
\* when no step has been started since the last initial update or reset: the
\* start of a step leaves it at 1 or more, and only a reset or an initial
\* update brings it back to 0.
C21_IterationInRangeAndZeroOnlyBeforeFirstStep ==
  /\ [](progress.iteration \in 0..Len(components))
  /\ [][ /\ (\E r \in Runs : calls'[r] # calls[r]) => progress'.iteration >= 1
         /\ (progress.iteration # 0 /\ progress'.iteration = 0) =>
              \/ home
              \/ \E r \in Runs : Begin(r) ]_vars

\* A run has made its initial update while the backend call of a step of
\* another run is outstanding: iteration is 0 again.
C21_Witness ==
  \E r, q \in Runs :
    /\ r # q
    /\ pc[q] = "generate"
    /\ calls[q] >= 1
    /\ pc[r] = "sleep"
    /\ calls[r] = 0
    /\ progress.iteration = 0

====
